---- MODULE Spec2Model ----
(***************************************************************************)
(* Model of py/merkle_proof_generator/main.py: compute_merkle_witness      *)
(* walks the backing tree of a state along the bits of a generalized index *)
(* and records the sibling hash of every level; main writes the result.    *)
(*                                                                         *)
(* A node of the backing tree is a tuple: <<v>> is a leaf holding the      *)
(* digest v, <<l, r>> is a pair node with children l and r.  Digests are   *)
(* naturals below 256^DigestBytes; a rendered digest is a sequence of      *)
(* one-character strings.                                                  *)
(***************************************************************************)
EXTENDS Integers, Sequences, FiniteSets, TLC

\* ------------------------------------------------------------------ bounds
\* Greatest depth of a backing tree (the root alone has depth 0).
MaxDepth == 2
\* target_gindex ranges over -NegGindex..MaxGindex.
MaxGindex == 16
NegGindex == 5
\* Width of a digest in bytes (32 in the library; every digest of the model fits).
DigestBytes == 4

\* ------------------------------------------------------- external library
\* remerkleable's merkle_hash, the combining function of a pair node: any
\* collision-free function into the digests that never yields a leaf digest.
\* Here the Cantor pairing, shifted past the leaf digests.
H(a, b) == ((a + b) * (a + b + 1)) \div 2 + b + 3

IsLeaf(n) == Len(n) = 1

get_left(n) == n[1]

get_right(n) == n[2]

RECURSIVE merkle_root(_)
merkle_root(n) ==
    IF IsLeaf(n) THEN n[1]
    ELSE H(merkle_root(get_left(n)), merkle_root(get_right(n)))

\* bytes.hex(): two lowercase hexadecimal digits per byte, most significant first.
HexDigits ==
    << "0", "1", "2", "3", "4", "5", "6", "7",
       "8", "9", "a", "b", "c", "d", "e", "f" >>

RECURSIVE HexOf(_, _)
HexOf(h, ndigits) ==
    IF ndigits = 0 THEN << >>
    ELSE Append(HexOf(h \div 16, ndigits - 1), HexDigits[(h % 16) + 1])

hex(h) == HexOf(h, 2 * DigestBytes)

\* "0x" + s
Prefixed(s) == << "0", "x" >> \o s

\* ------------------------------------------------------ Python integers
Abs(n) == IF n < 0 THEN -n ELSE n

\* int.bit_length(): the number of bits of the absolute value.
RECURSIVE bit_length(_)
bit_length(n) == IF n = 0 THEN 0 ELSE 1 + bit_length(Abs(n) \div 2)

\* 1 << k for k >= 0 (a negative k raises ValueError, see EnterShiftError).
Shl1(k) == 2 ^ k

\* a & b for a >= 0 and any b (two's complement of unbounded width).
RECURSIVE BitAnd(_, _)
BitAnd(a, b) ==
    IF a = 0 THEN 0
    ELSE (a % 2) * (b % 2) + 2 * BitAnd(a \div 2, b \div 2)

\* ------------------------------------------------------------------ inputs
\* The digests a leaf may hold.
LeafDigests == {1, 2}

RECURSIVE TreesOfDepth(_)
TreesOfDepth(d) ==
    LET leaves == { << v >> : v \in LeafDigests }
    IN  IF d = 0 THEN leaves
        ELSE LET sub == TreesOfDepth(d - 1)
             IN  leaves \cup { << l, r >> : l \in sub, r \in sub }

Trees == TreesOfDepth(MaxDepth)

\* The traversal is modelled for every integer it may be handed as
\* target_gindex.  (For a validator of a BeaconState the path resolver of
\* line 20-21 yields positive values of many bits only.)
Gindices == (-NegGindex)..MaxGindex

\* ------------------------------------------------------------------- state
VARIABLES
    merkle_tree,     \* state.get_backing()
    target_gindex,   \* merkle_path.gindex()
    root,            \* rendered root digest
    node,            \* the node the traversal is at
    check_bit,
    witness,         \* rendered sibling digests
    result,          \* what compute_merkle_witness returned
    output,          \* what main wrote to the output file
    pc,              \* "call", "loop", "returned", "written", "raised"
    error,           \* the exception that ended the run
    iter             \* completed iterations of the while loop

vars ==
    << merkle_tree, target_gindex, root, node, check_bit, witness,
       result, output, pc, error, iter >>

NoResult == [gindex |-> 0, root |-> << >>, witness |-> << >>, value |-> << >>]

Init ==
    /\ merkle_tree \in Trees
    /\ target_gindex \in Gindices
    /\ root = << >>
    /\ node = << >>
    /\ check_bit = 0
    /\ witness = << >>
    /\ result = NoResult
    /\ output = NoResult
    /\ pc = "call"
    /\ error = "none"
    /\ iter = 0

\* Lines 24-31 with a shift count >= 0.
Enter ==
    /\ pc = "call"
    /\ bit_length(target_gindex) - 2 >= 0
    /\ root' = hex(merkle_root(merkle_tree))
    /\ node' = merkle_tree
    /\ check_bit' = Shl1(bit_length(target_gindex) - 2)
    /\ witness' = << >>
    /\ pc' = "loop"
    /\ UNCHANGED << merkle_tree, target_gindex, result, output, error, iter >>

\* Line 29 with a negative shift count: 1 << k raises ValueError.
EnterShiftError ==
    /\ pc = "call"
    /\ bit_length(target_gindex) - 2 < 0
    /\ root' = hex(merkle_root(merkle_tree))
    /\ node' = merkle_tree
    /\ pc' = "raised"
    /\ error' = "ValueError"
    /\ UNCHANGED << merkle_tree, target_gindex, check_bit, witness, result,
                    output, iter >>

\* DescendRight with check_bit shifted by two places instead of one.
DescendRightSkipShift ==
    /\ pc = "loop"
    /\ check_bit > 0
    /\ BitAnd(check_bit, target_gindex) # 0
    /\ ~IsLeaf(node)
    /\ witness' = Append(witness, Prefixed(hex(merkle_root(get_left(node)))))
    /\ node' = get_right(node)
    /\ check_bit' = check_bit \div 4
    /\ iter' = iter + 1
    /\ UNCHANGED << merkle_tree, target_gindex, root, result, output, pc, error >>

\* DescendRight recording the digest of the child it descends into instead
\* of the sibling's.
DescendRightOwnHash ==
    /\ pc = "loop"
    /\ check_bit > 0
    /\ BitAnd(check_bit, target_gindex) # 0
    /\ ~IsLeaf(node)
    /\ witness' = Append(witness, Prefixed(hex(merkle_root(get_right(node)))))
    /\ node' = get_right(node)
    /\ check_bit' = check_bit \div 2
    /\ iter' = iter + 1
    /\ UNCHANGED << merkle_tree, target_gindex, root, result, output, pc, error >>

\* Lines 32-35, 39: the bit is set, record the left sibling, go right.
DescendRight ==
    /\ pc = "loop"
    /\ check_bit > 0
    /\ BitAnd(check_bit, target_gindex) # 0
    /\ ~IsLeaf(node)
    /\ witness' = Append(witness, Prefixed(hex(merkle_root(get_left(node)))))
    /\ node' = get_right(node)
    /\ check_bit' = check_bit \div 2
    /\ iter' = iter + 1
    /\ UNCHANGED << merkle_tree, target_gindex, root, result, output, pc, error >>

\* DescendLeft recording the digest of the child it descends into instead
\* of the sibling's.
DescendLeftOwnHash ==
    /\ pc = "loop"
    /\ check_bit > 0
    /\ BitAnd(check_bit, target_gindex) = 0
    /\ ~IsLeaf(node)
    /\ witness' = Append(witness, Prefixed(hex(merkle_root(get_left(node)))))
    /\ node' = get_left(node)
    /\ check_bit' = check_bit \div 2
    /\ iter' = iter + 1
    /\ UNCHANGED << merkle_tree, target_gindex, root, result, output, pc, error >>

\* Lines 32-33, 36-39: the bit is clear, record the right sibling, go left.
DescendLeft ==
    /\ pc = "loop"
    /\ check_bit > 0
    /\ BitAnd(check_bit, target_gindex) = 0
    /\ ~IsLeaf(node)
    /\ witness' = Append(witness, Prefixed(hex(merkle_root(get_right(node)))))
    /\ node' = get_left(node)
    /\ check_bit' = check_bit \div 2
    /\ iter' = iter + 1
    /\ UNCHANGED << merkle_tree, target_gindex, root, result, output, pc, error >>

\* NavigationFail returning the partial witness and the leaf's digest
\* instead of raising.
NavigationFailReturns ==
    /\ pc = "loop"
    /\ check_bit > 0
    /\ IsLeaf(node)
    /\ result' = [gindex |-> target_gindex, root |-> root,
                  witness |-> witness, value |-> hex(merkle_root(node))]
    /\ pc' = "returned"
    /\ UNCHANGED << merkle_tree, target_gindex, root, node, check_bit, witness,
                    output, error, iter >>

\* Lines 34 and 37 at a leaf: get_left and get_right of a node without
\* children raise NavigationError before anything is appended.
NavigationFail ==
    /\ pc = "loop"
    /\ check_bit > 0
    /\ IsLeaf(node)
    /\ pc' = "raised"
    /\ error' = "NavigationError"
    /\ UNCHANGED << merkle_tree, target_gindex, root, node, check_bit, witness,
                    result, output, iter >>

\* Lines 32, 41-49: the loop is over, the value is the digest of the node.
Return ==
    /\ pc = "loop"
    /\ ~(check_bit > 0)
    /\ result' = [gindex |-> target_gindex, root |-> root,
                  witness |-> witness, value |-> hex(merkle_root(node))]
    /\ pc' = "returned"
    /\ UNCHANGED << merkle_tree, target_gindex, root, node, check_bit, witness,
                    output, error, iter >>

\* main, lines 73-78: the result is written to the output file.
Dump ==
    /\ pc = "returned"
    /\ output' = result
    /\ pc' = "written"
    /\ UNCHANGED << merkle_tree, target_gindex, root, node, check_bit, witness,
                    result, error, iter >>

Next ==
    \/ Enter
    \/ EnterShiftError
    \/ DescendRight
    \/ DescendLeft
    \/ NavigationFail
    \/ Return
    \/ Dump

Spec == Init /\ [][Next]_vars

\* The interpreter runs the next statement: a single thread with no
\* suspension points.
FairSpec == Spec /\ WF_vars(Next)

\* ------------------------------------------------- reference definitions
\* The node a generalized index names: node(1) is the root, node(2j) the left
\* child of node(j), node(2j+1) its right child.
RECURSIVE NodeAt(_, _)
NodeAt(t, j) ==
    IF j = 1 THEN t
    ELSE IF j % 2 = 0 THEN get_left(NodeAt(t, j \div 2))
    ELSE get_right(NodeAt(t, j \div 2))

\* j names a node of t.
RECURSIVE Addresses(_, _)
Addresses(t, j) ==
    /\ j >= 1
    /\ \/ j = 1
       \/ /\ Addresses(t, j \div 2)
          /\ ~IsLeaf(NodeAt(t, j \div 2))

RECURSIVE Depth(_)
Depth(t) ==
    IF IsLeaf(t) THEN 0
    ELSE LET l == Depth(get_left(t))
             r == Depth(get_right(t))
         IN  1 + (IF l > r THEN l ELSE r)

\* The digests of all nodes of t.
RECURSIVE Digests(_)
Digests(t) ==
    IF IsLeaf(t) THEN { merkle_root(t) }
    ELSE { merkle_root(t) } \cup Digests(get_left(t)) \cup Digests(get_right(t))

\* The digests of the nodes of t at depth d or deeper.
RECURSIVE DigestsFrom(_, _)
DigestsFrom(t, d) ==
    IF d <= 0 THEN Digests(t)
    ELSE IF IsLeaf(t) THEN {}
    ELSE DigestsFrom(get_left(t), d - 1) \cup DigestsFrom(get_right(t), d - 1)

Xor1(j) == IF j % 2 = 0 THEN j + 1 ELSE j - 1

\* The number of direction bits of g.
DirBits(g) == bit_length(g) - 1

HexVal(c) == CHOOSE v \in 0..15 : HexDigits[v + 1] = c

RECURSIVE ParseHex(_)
ParseHex(s) ==
    IF Len(s) = 0 THEN 0
    ELSE 16 * ParseHex(SubSeq(s, 1, Len(s) - 1)) + HexVal(s[Len(s)])

\* The digest a rendered hash stands for, with or without the 0x prefix.
ParseHash(s) ==
    IF Len(s) >= 2 /\ s[2] = "x" THEN ParseHex(SubSeq(s, 3, Len(s)))
    ELSE ParseHex(s)

ParseAll(w) == [i \in 1..Len(w) |-> ParseHash(w[i])]

\* The Verifier's fold (specification 4.2; the repository has no verifier):
\* direction bits of g from the least significant, witness entries from the
\* last; bit 1 gives H(entry, current), bit 0 gives H(current, entry).
RECURSIVE verify(_, _, _)
verify(current, g, w) ==
    IF Len(w) = 0 THEN current
    ELSE LET entry == w[Len(w)]
             up == IF g % 2 = 1 THEN H(entry, current) ELSE H(current, entry)
         IN  verify(up, g \div 2, SubSeq(w, 1, Len(w) - 1))

\* A rendered hash of the form 0x followed by lowercase hexadecimal digits.
IsPrefixedHex(s) ==
    /\ Len(s) = 2 + 2 * DigestBytes
    /\ s[1] = "0"
    /\ s[2] = "x"
    /\ \A i \in 3..Len(s) : \E v \in 1..16 : HexDigits[v] = s[i]

Returned == pc \in {"returned", "written"}

Ended == pc \in {"returned", "written", "raised"}

ValidIndex == target_gindex >= 1 /\ Addresses(merkle_tree, target_gindex)

\* What the Verifier recomputes from the returned Proof.
Recomputed ==
    verify(ParseHash(result.value), target_gindex, ParseAll(result.witness))

\* ------------------------------------------------------------------ claims

RoundTripWhenReturned ==
    Returned => Recomputed = merkle_root(merkle_tree)

\* C2: witness content and order. For a gindex with n direction bits that
\* addresses a node, witness entry i (0-based) is the digest of the node whose
\* gindex is (g >> (n-1-i)) XOR 1: the sibling of the path node at depth i+1,
\* from the level nearest the root to the level nearest the target.
WitnessContent ==
    ValidIndex =>
        LET n == DirBits(target_gindex)
        IN  /\ Len(witness) <= n
            /\ \A i \in 0..(Len(witness) - 1) :
                   ParseHash(witness[i + 1]) =
                       merkle_root(NodeAt(merkle_tree,
                           Xor1(target_gindex \div (2 ^ (n - 1 - i)))))
            /\ Returned => result.witness = witness /\ Len(witness) = n

\* The four-leaf tree of the specification's scenario, gindex 6: the witness
\* is [H(L0,L1), L3].
WitnessContentReached ==
    /\ pc = "returned"
    /\ target_gindex = 6
    /\ merkle_tree = << << <<1>>, <<2>> >>, << <<2>>, <<1>> >> >>
    /\ result.witness = << Prefixed(hex(H(1, 2))), Prefixed(hex(1)) >>

TargetValueWhenReturned ==
    (ValidIndex /\ Returned) =>
        ParseHash(result.value) = merkle_root(NodeAt(merkle_tree, target_gindex))

WitnessLengthWhenReturned ==
    Returned => Len(result.witness) = bit_length(target_gindex) - 1

OutOfRange ==
    /\ [][ (pc = "loop" /\ check_bit > 0 /\ IsLeaf(node)) =>
               /\ pc' = "raised"
               /\ error' = "NavigationError"
               /\ result' = NoResult
               /\ output' = NoResult ]_vars
    /\ [](target_gindex > 2 ^ (Depth(merkle_tree) + 1) - 1 =>
               /\ ~Returned
               /\ result = NoResult
               /\ output = NoResult
               /\ pc = "raised" => error = "NavigationError")
    /\ (target_gindex > 2 ^ (Depth(merkle_tree) + 1) - 1) ~> (pc = "raised")

OutOfRangeReached ==
    /\ pc = "raised"
    /\ error = "NavigationError"
    /\ target_gindex > 2 ^ (Depth(merkle_tree) + 1) - 1
    /\ Depth(merkle_tree) = 2
    /\ iter = 2

TamperSensitive ==
    Returned =>
        LET w == ParseAll(result.witness)
            v == ParseHash(result.value)
            small == LeafDigests \cup {0, 3}
            Others(d, h) ==
                (DigestsFrom(merkle_tree, d) \cup small \cup {h + 1}) \ {h}
        IN  /\ \A h \in Others(Len(w), v) :
                   verify(h, target_gindex, w) # ParseHash(result.root)
            /\ \A p \in 1..Len(w) : \A h \in Others(p, w[p]) :
                   verify(v, target_gindex, [w EXCEPT ![p] = h])
                       # ParseHash(result.root)

TamperSensitiveReached ==
    /\ pc = "returned"
    /\ Len(result.witness) = 2
    /\ Cardinality(Digests(merkle_tree)) >= 5

\* C9: hash rendering. In the Proof that is returned and written, root, value
\* and every witness entry are lowercase hexadecimal strings prefixed 0x.
HashRendering ==
    Returned =>
        /\ IsPrefixedHex(result.root)
        /\ IsPrefixedHex(result.value)
        /\ \A i \in 1..Len(result.witness) : IsPrefixedHex(result.witness[i])

\* The part of C9 the code does meet: the witness entries carry the prefix,
\* root and value are the bare hexadecimal digits.
HashRenderingOfCode ==
    Returned =>
        /\ Prefixed(result.root) = Prefixed(hex(merkle_root(merkle_tree)))
        /\ IsPrefixedHex(Prefixed(result.root))
        /\ IsPrefixedHex(Prefixed(result.value))
        /\ \A i \in 1..Len(result.witness) : IsPrefixedHex(result.witness[i])

\* C10: loop invariant. For a gindex > 1 with n direction bits on a tree deep
\* enough, after k completed iterations the witness has k entries, check_bit
\* is 2^(n-1-k) for k < n and 0 for k = n, and the node is the one whose
\* gindex is g >> (n-k); check_bit decreases in every iteration and the loop
\* ends after exactly n iterations.
LoopInvariant ==
    /\ [](LET n == DirBits(target_gindex)
          IN  (target_gindex > 1 /\ ValidIndex /\ pc # "call") =>
                  /\ iter <= n
                  /\ Len(witness) = iter
                  /\ check_bit = (IF iter < n THEN 2 ^ (n - 1 - iter) ELSE 0)
                  /\ node = NodeAt(merkle_tree,
                                   target_gindex \div (2 ^ (n - iter)))
                  /\ pc # "loop" => (Returned /\ iter = n))
    /\ [][ iter' # iter =>
               /\ iter' = iter + 1
               /\ check_bit' < check_bit
               /\ check_bit' >= 0 ]_vars
    /\ (target_gindex > 1 /\ ValidIndex) ~>
           (Returned /\ iter = DirBits(target_gindex))

LoopInvariantReached ==
    /\ pc = "loop"
    /\ target_gindex = 5
    /\ iter = 1
    /\ check_bit = 1
    /\ Depth(merkle_tree) = 2

====
